---- MODULE Spec2Model ----
(***************************************************************************)
(* fmod.Tensor_out and fmod.Scalar_out of the portable CPU kernels         *)
(* (kernels/portable/cpu/op_fmod.cpp), modelled as a sequential state      *)
(* machine: one step per statement of the kernel, one step per element of  *)
(* the elementwise loop.  ET_CHECK failures and failed type switches abort *)
(* the process: the model records the kind of failure in err and stops.    *)
(*                                                                         *)
(* Element values.  An element of an integral tensor is the integer it     *)
(* holds; an element of a Bool tensor is 0 or 1; an element of a floating  *)
(* tensor is the number of halves it holds (11 stands for 5.5), or NaN.    *)
(* All magnitudes of the model are far below 2^24, so every finite value   *)
(* is exactly representable in Half/Float/Double as far as the operations  *)
(* of the kernel are concerned, and in Int and Long.                       *)
(***************************************************************************)
EXTENDS Integers, Naturals, Sequences, FiniteSets, TLC

\* ------------------------------------------------------------------ bounds
MaxRank == 2
MaxExtent == 3
MaxNumel == 6
MaxVal == 6
MaxCalls == 2

\* --------------------------------------------------------------- type tags
RealTypes == {"Byte", "Char", "Short", "Int", "Long", "Float", "Double"}
RealTypesAndBool == RealTypes \cup {"Bool"}
ScalarObjTypes == {"Bool", "Long", "Double"}
ScalarTypes == RealTypesAndBool \cup {"Half"}
Undefined == "Undefined"

isFloatingType(t) == t \in {"Half", "Float", "Double"}

isIntegralType(t, includeBool) ==
  t \in {"Byte", "Char", "Short", "Int", "Long"} \/ (includeBool /\ t = "Bool")

\* Position of a tag inside its own category of the promotion table.
PromotionRank(t) ==
  CASE t = "Bool" -> 0
    [] t = "Byte" -> 1
    [] t = "Char" -> 1
    [] t = "Short" -> 2
    [] t = "Int" -> 3
    [] t = "Long" -> 4
    [] t = "Half" -> 5
    [] t = "Float" -> 6
    [] t = "Double" -> 7

promoteTypes(x, y) ==
  IF x = y THEN x
  ELSE IF x = "Bool" THEN y
  ELSE IF y = "Bool" THEN x
  ELSE IF isFloatingType(x) /\ ~isFloatingType(y) THEN x
  ELSE IF isFloatingType(y) /\ ~isFloatingType(x) THEN y
  ELSE IF {x, y} = {"Byte", "Char"} THEN "Short"
  ELSE IF PromotionRank(x) >= PromotionRank(y) THEN x ELSE y

canCast(from, to) ==
  IF isFloatingType(from) /\ isIntegralType(to, FALSE) THEN FALSE
  ELSE IF from # "Bool" /\ to = "Bool" THEN FALSE
  ELSE TRUE

\* --------------------------------------------------------- element values
NaN == 8388608

Abs(x) == IF x < 0 THEN -x ELSE x

\* Two's-complement wrap-around of n into a signed w-bit integer.
WrapSigned(n, half) == ((n + half) % (2 * half)) - half

\* Conversion of an integer to the integral type `to`.  Int and Long hold
\* every integer of the model unchanged.
IntegralCast(n, to) ==
  CASE to = "Byte" -> n % 256
    [] to = "Char" -> WrapSigned(n, 128)
    [] to = "Short" -> WrapSigned(n, 32768)
    [] to = "Int" -> n
    [] to = "Long" -> n
    [] to = "Bool" -> IF n = 0 THEN 0 ELSE 1

\* Halves to integer, rounding toward zero.
TruncHalves(h) == IF h >= 0 THEN h \div 2 ELSE -((-h) \div 2)

\* static_cast<to>(v) for v of type `from`.  The conversion of NaN to an
\* integral or Bool type is undefined and has no case here: no call of the
\* kernel evaluates it (canCast rejects floating -> integral and -> Bool).
static_cast(v, from, to) ==
  CASE isFloatingType(from) /\ isFloatingType(to) -> v
    [] isFloatingType(from) /\ isIntegralType(to, FALSE) /\ v # NaN ->
         IntegralCast(TruncHalves(v), to)
    [] isFloatingType(from) /\ to = "Bool" /\ v # NaN ->
         IF v = 0 THEN 0 ELSE 1
    [] ~isFloatingType(from) /\ isFloatingType(to) -> 2 * v
    [] ~isFloatingType(from) /\ isIntegralType(to, FALSE) -> IntegralCast(v, to)
    [] ~isFloatingType(from) /\ to = "Bool" -> IF v = 0 THEN 0 ELSE 1

\* A remainder that takes the sign of the divisor (floored division).
std_fmod_floored(x, y) ==
  IF x = NaN \/ y = NaN \/ y = 0 THEN NaN
  ELSE IF y > 0 THEN x % y ELSE -((-x) % (-y))

\* std::fmod on doubles: the result has the sign of x and a magnitude below
\* |y|; a zero divisor or a NaN operand gives NaN.
std_fmod(x, y) ==
  IF x = NaN \/ y = NaN \/ y = 0 THEN NaN
  ELSE IF x >= 0 THEN x % Abs(y) ELSE -((-x) % Abs(y))

\* Outcomes of converting a NaN double to the integral type t (undefined
\* behaviour): the "integer indefinite" pattern truncated to t, or zero.
UndefinedIntegral(t) ==
  CASE t = "Char" -> {0, -128}
    [] t = "Short" -> {0, -32768}
    [] OTHER -> {0, -1}

\* CTYPE_IN value = std::fmod(a_casted, b_casted): integral arguments are
\* converted to double (exactly, for the magnitudes of the model) and the
\* double result is converted back to CTYPE_IN.
FmodInComputeType(a_casted, b_casted, in_type) ==
  LET r == std_fmod(a_casted, b_casted) IN
  IF isFloatingType(in_type) THEN {r}
  ELSE IF r = NaN THEN UndefinedIntegral(in_type)
  ELSE {IntegralCast(r, in_type)}

\* The check made for the floating types instead of the integral ones.
ZeroDivisorCheckFails_inverted(common, vb) ==
  isFloatingType(common) /\ vb = 0

\* The check made whatever the common type is.
ZeroDivisorCheckFails_unconditional(common, vb) == vb = 0

\* No check at all.
ZeroDivisorCheckFails_skipped(common, vb) == FALSE

\* The zero-divisor check of the leaf function: ET_CHECK(val_b != 0) under
\* isIntegralType(common_type, includeBool = true).  TRUE when it fails.
ZeroDivisorCheckFails(common, vb) ==
  isIntegralType(common, TRUE) /\ vb = 0

\* The values the per-element lambda can return.
fmod_fn(va, vb, ta, tb, tin, tout) ==
  LET a_casted == static_cast(va, ta, tin)
      b_casted == static_cast(vb, tb, tin)
  IN {static_cast(value, tin, tout) :
        value \in FmodInComputeType(a_casted, b_casted, tin)}

b_casted_of(vb, tb, tin) == static_cast(vb, tb, tin)

\* ------------------------------------------------------------------ shapes
Max(x, y) == IF x >= y THEN x ELSE y

RECURSIVE Numel(_)
Numel(sizes) ==
  IF sizes = <<>> THEN 1 ELSE Head(sizes) * Numel(Tail(sizes))

\* Extent of dimension k counted from the trailing end (1 = last); a missing
\* leading dimension has extent 1.
DimFromEnd(sizes, k) ==
  IF k <= Len(sizes) THEN sizes[Len(sizes) - k + 1] ELSE 1

tensors_are_broadcastable(sa, sb) ==
  \A k \in 1..Max(Len(sa), Len(sb)) :
     \/ DimFromEnd(sa, k) = DimFromEnd(sb, k)
     \/ DimFromEnd(sa, k) = 1
     \/ DimFromEnd(sb, k) = 1

get_broadcast_target_size(sa, sb) ==
  LET n == Max(Len(sa), Len(sb)) IN
  [j \in 1..n |-> Max(DimFromEnd(sa, n - j + 1), DimFromEnd(sb, n - j + 1))]

\* resize_tensor: the tensor takes the new sizes; its storage (planned for
\* the largest shape) is neither moved nor cleared.
resize_tensor(t, new_sizes) == [t EXCEPT !.sizes = new_sizes]

\* Number of elements one step along dimension j of a contiguous tensor skips.
Stride(sizes, j) == Numel(SubSeq(sizes, j + 1, Len(sizes)))

\* Coordinate along dimension j of the element with row-major index lin.
Coordinate(lin, sizes, j) == (lin \div Stride(sizes, j)) % sizes[j]

RECURSIVE BroadcastOffset(_, _, _, _)
BroadcastOffset(lin, out_sizes, sizes, j) ==
  IF j > Len(sizes) THEN 0
  ELSE (IF sizes[j] = 1 THEN 0
        ELSE Coordinate(lin, out_sizes, Len(out_sizes) - Len(sizes) + j)
               * Stride(sizes, j))
       + BroadcastOffset(lin, out_sizes, sizes, j + 1)

\* Row-major index, in an operand of the given sizes, of the element that
\* is combined into the element with row-major index lin of the output.
linearize_access_indexes(lin, out_sizes, sizes) ==
  BroadcastOffset(lin, out_sizes, sizes, 1)

\* ------------------------------------------------------------------- state
VARIABLES
  op,            \* "Tensor": fmod_Tensor_out, "Scalar": fmod_Scalar_out
  a,             \* first operand: [type, sizes, data]
  b,             \* second operand: a tensor, or a Scalar [type, sizes = <<>>, data = <<v>>]
  out,           \* output tensor: [type, sizes, data]
  a_type, b_type, common_type, out_type,   \* the locals of the kernel
  val_b,         \* fmod_Scalar_out: the extracted scalar
  pc,            \* the statement the call is at
  err,           \* "None", or the failure that aborted the call
  i,             \* the elementwise loop's index (0-based)
  calls,         \* number of calls started
  entry_out,     \* history: out when the current call started
  loop_out,      \* history: out when the elementwise loop started
  written,       \* history: 1-based positions of out stored by this call
  resized,       \* history: number of times this call changed out's sizes
  fn_calls,      \* history: number of invocations of the lambda in this call
  divisors       \* history: the b_casted values handed to std::fmod in this call

vars == <<op, a, b, out, a_type, b_type, common_type, out_type, val_b, pc,
          err, i, calls, entry_out, loop_out, written, resized, fn_calls,
          divisors>>

inputs == <<op, a, b>>
locals == <<a_type, b_type, common_type, out_type, val_b>>
history == <<entry_out, loop_out, written, resized, fn_calls, divisors>>

Capacity == Numel([j \in 1..MaxRank |-> MaxExtent])

\* ------------------------------------------------------------------ inputs
\* The value a tensor of the given type holds for the drawn integer raw:
\* floating tensors hold raw halves, Bool tensors hold raw # 0, integral
\* tensors hold raw wrapped into their width.
TensorVal(raw, type) ==
  IF isFloatingType(type) THEN raw
  ELSE IF type = "Bool" THEN (IF raw = 0 THEN 0 ELSE 1)
  ELSE IntegralCast(raw, type)

MakeTensor(type, sizes, raw) ==
  [type |-> type, sizes |-> sizes,
   data |-> [j \in 1..Numel(sizes) |-> TensorVal(raw[j], type)]]

MakeScalar(type, raw) ==
  [type |-> type, sizes |-> <<>>, data |-> <<TensorVal(raw, type)>>]

MakeOut(type, sizes, fill) ==
  [type |-> type, sizes |-> sizes,
   data |-> [j \in 1..Capacity |-> TensorVal(fill, type)]]

\* The operand shapes drawn: at most MaxRank dimensions of extent
\* 1..MaxExtent, at most MaxNumel elements.
Shapes ==
  {s \in UNION {[1..r -> 1..MaxExtent] : r \in 0..MaxRank} :
     Numel(s) <= MaxNumel}

DividendPattern(n) == [j \in 1..n |-> <<5, 7, -3>>[((j - 1) % 3) + 1]]

\* Nonzero divisors with a zero at position z (none when z = 0).
DivisorPattern(n, z) ==
  [j \in 1..n |-> IF j = z THEN 0 ELSE <<2, -3>>[((j - 1) % 2) + 1]]

ZeroPositions(n) == {0, 1, (n + 1) \div 2, n}

Call(o, ta, tb, tout) ==
  /\ op = o
  /\ a = ta
  /\ b = tb
  /\ out = tout

\* Every combination of type tags, on two-element operands.
TypeInputs ==
  \E ta \in ScalarTypes, to \in ScalarTypes :
     \/ \E tb \in ScalarTypes, z \in 0..2 :
          Call("Tensor", MakeTensor(ta, <<2>>, DividendPattern(2)),
               MakeTensor(tb, <<2>>, DivisorPattern(2, z)),
               MakeOut(to, <<1>>, 7))
     \/ \E tb \in ScalarObjTypes, v \in {0, 2, 256} :
          Call("Scalar", MakeTensor(ta, <<2>>, DividendPattern(2)),
               MakeScalar(tb, v), MakeOut(to, <<1>>, 7))

ShapeTypes == {<<"Long", "Long", "Long">>, <<"Float", "Long", "Float">>}

\* Every pair of operand shapes, with the zero divisor at the first, a
\* middle or the last position of b, or absent.
ShapeInputs ==
  \E sa \in Shapes, t \in ShapeTypes :
    \E so \in {<<1>>, sa} :
     \/ \E sb \in Shapes :
          \E z \in ZeroPositions(Numel(sb)) :
            Call("Tensor", MakeTensor(t[1], sa, DividendPattern(Numel(sa))),
                 MakeTensor(t[2], sb, DivisorPattern(Numel(sb), z)),
                 MakeOut(t[3], so, 7))
     \/ \E v \in {0, 2} :
          Call("Scalar", MakeTensor(t[1], sa, DividendPattern(Numel(sa))),
               MakeScalar(t[2], v), MakeOut(t[3], so, 7))

ValueTypes ==
  {<<"Char", "Char", "Char">>, <<"Long", "Long", "Long">>,
   <<"Byte", "Char", "Short">>, <<"Short", "Long", "Long">>,
   <<"Float", "Double", "Double">>}

\* Every pair of operand values of a bounded range, on one-element operands.
ValueInputs ==
  \E x \in -MaxVal..MaxVal, y \in -MaxVal..MaxVal, t \in ValueTypes,
     f \in {0, 7} :
     \/ Call("Tensor", MakeTensor(t[1], <<1>>, <<x>>),
             MakeTensor(t[2], <<1>>, <<y>>), MakeOut(t[3], <<1>>, f))
     \/ /\ t[2] \in ScalarObjTypes
        /\ Call("Scalar", MakeTensor(t[1], <<1>>, <<x>>),
                MakeScalar(t[2], y), MakeOut(t[3], <<1>>, f))

Init ==
  /\ TypeInputs \/ ShapeInputs \/ ValueInputs
  /\ a_type = Undefined /\ b_type = Undefined
  /\ common_type = Undefined /\ out_type = Undefined
  /\ val_b = 0
  /\ pc = "resize"
  /\ err = "None"
  /\ i = 0
  /\ calls = 1
  /\ entry_out = out
  /\ loop_out = out
  /\ written = {}
  /\ resized = 0
  /\ fn_calls = 0
  /\ divisors = {}

\* ----------------------------------------------------------------- actions
Abort(kind) ==
  /\ err' = kind
  /\ UNCHANGED <<inputs, out, locals, pc, i, calls, history>>

\* out takes a's sizes before the operands are found incompatible.
fmod_Tensor_out_resize_unchecked ==
  /\ op = "Tensor" /\ pc = "resize" /\ err = "None"
  /\ IF ~tensors_are_broadcastable(a.sizes, b.sizes)
     THEN /\ out' = resize_tensor(out, a.sizes)
          /\ err' = "ShapeMismatch"
          /\ UNCHANGED <<inputs, locals, pc, i, calls, history>>
     ELSE LET target == get_broadcast_target_size(a.sizes, b.sizes) IN
          /\ out' = resize_tensor(out, target)
          /\ resized' = resized + (IF out.sizes = target THEN 0 ELSE 1)
          /\ pc' = "promote"
          /\ UNCHANGED <<inputs, locals, err, i, calls, entry_out, loop_out,
                         written, fn_calls, divisors>>

\* fmod_Tensor_out: resize_to_broadcast_target_size(a, b, out).
fmod_Tensor_out_resize ==
  /\ op = "Tensor" /\ pc = "resize" /\ err = "None"
  /\ IF ~tensors_are_broadcastable(a.sizes, b.sizes)
     THEN Abort("ShapeMismatch")
     ELSE LET target == get_broadcast_target_size(a.sizes, b.sizes) IN
          /\ out' = resize_tensor(out, target)
          /\ resized' = resized + (IF out.sizes = target THEN 0 ELSE 1)
          /\ pc' = "promote"
          /\ UNCHANGED <<inputs, locals, err, i, calls, entry_out, loop_out,
                         written, fn_calls, divisors>>

\* fmod_Scalar_out: ET_CHECK(resize_tensor(out, a.sizes()) == Error::Ok).
fmod_Scalar_out_resize ==
  /\ op = "Scalar" /\ pc = "resize" /\ err = "None"
  /\ out' = resize_tensor(out, a.sizes)
  /\ resized' = resized + (IF out.sizes = a.sizes THEN 0 ELSE 1)
  /\ pc' = "promote"
  /\ UNCHANGED <<inputs, locals, err, i, calls, entry_out, loop_out,
                 written, fn_calls, divisors>>

get_scalar_dtype(s) == s.type

promote_type_with_scalar(t, s) == promoteTypes(t, get_scalar_dtype(s))

\* fmod_Tensor_out: the four ScalarType locals.
fmod_Tensor_out_types ==
  /\ op = "Tensor" /\ pc = "promote" /\ err = "None"
  /\ a_type' = a.type
  /\ b_type' = b.type
  /\ common_type' = promoteTypes(a.type, b.type)
  /\ out_type' = out.type
  /\ pc' = "check_cast"
  /\ UNCHANGED <<inputs, out, val_b, err, i, calls, history>>

\* fmod_Scalar_out: the four ScalarType locals.
fmod_Scalar_out_types ==
  /\ op = "Scalar" /\ pc = "promote" /\ err = "None"
  /\ a_type' = a.type
  /\ b_type' = get_scalar_dtype(b)
  /\ common_type' = promote_type_with_scalar(a.type, b)
  /\ out_type' = out.type
  /\ pc' = "check_cast"
  /\ UNCHANGED <<inputs, out, val_b, err, i, calls, history>>

Goto(next) ==
  /\ pc' = next
  /\ UNCHANGED <<inputs, out, locals, err, i, calls, history>>

\* The cast check left out.
check_canCast_skipped ==
  /\ pc = "check_cast" /\ err = "None"
  /\ Goto("switch_a")

\* ET_CHECK(canCast(common_type, out_type)).
check_canCast ==
  /\ pc = "check_cast" /\ err = "None"
  /\ IF canCast(common_type, out_type)
     THEN Goto("switch_a")
     ELSE Abort("CastNotAllowed")

\* ET_SWITCH_REAL_TYPES_AND(Bool, a_type, ..., CTYPE_A, ...).
switch_a_type ==
  /\ pc = "switch_a" /\ err = "None"
  /\ IF a_type \in RealTypesAndBool
     THEN Goto("switch_b")
     ELSE Abort("UnsupportedType")

\* fmod_Tensor_out: ET_SWITCH_REAL_TYPES_AND(Bool, b_type, ..., CTYPE_B, ...).
fmod_Tensor_out_switch_b ==
  /\ op = "Tensor" /\ pc = "switch_b" /\ err = "None"
  /\ IF b_type \in RealTypesAndBool
     THEN Goto("switch_in")
     ELSE Abort("UnsupportedType")

\* fmod_Scalar_out: ET_SWITCH_SCALAR_OBJ_TYPES(b_type, ..., CTYPE_B, ...).
fmod_Scalar_out_switch_b ==
  /\ op = "Scalar" /\ pc = "switch_b" /\ err = "None"
  /\ IF b_type \in ScalarObjTypes
     THEN Goto("extract")
     ELSE Abort("UnsupportedType")

\* extract_scalar into a CTYPE_B: the Scalar's own value (CTYPE_B is the
\* representation get_scalar_dtype names, so nothing is narrowed).
extract_scalar(s, tb) == static_cast(s.data[1], s.type, tb)

\* fmod_Scalar_out: CTYPE_B val_b = 0; ET_EXTRACT_SCALAR(b, val_b).
fmod_Scalar_out_extract ==
  /\ op = "Scalar" /\ pc = "extract" /\ err = "None"
  /\ val_b' = extract_scalar(b, b_type)
  /\ pc' = "switch_in"
  /\ UNCHANGED <<inputs, out, a_type, b_type, common_type, out_type, err, i,
                 calls, history>>

\* The compute slot switched with ET_SWITCH_REAL_TYPES_AND(Bool, ...).
switch_common_type_and_bool ==
  /\ pc = "switch_in" /\ err = "None"
  /\ IF common_type \in RealTypesAndBool
     THEN Goto(IF op = "Scalar" THEN "check_zero" ELSE "switch_out")
     ELSE Abort("UnsupportedType")

\* ET_SWITCH_REAL_TYPES(common_type, ..., CTYPE_IN, ...).
switch_common_type ==
  /\ pc = "switch_in" /\ err = "None"
  /\ IF common_type \in RealTypes
     THEN Goto(IF op = "Scalar" THEN "check_zero" ELSE "switch_out")
     ELSE Abort("UnsupportedType")

\* fmod_Scalar_out: if (isIntegralType(common_type, true)) ET_CHECK(val_b != 0).
fmod_Scalar_out_check_zero ==
  /\ op = "Scalar" /\ pc = "check_zero" /\ err = "None"
  /\ IF ZeroDivisorCheckFails(common_type, val_b)
     THEN Abort("DomainViolation")
     ELSE Goto("switch_out")

\* ET_SWITCH_REAL_TYPES(out_type, ..., CTYPE_OUT, ...); on a match the
\* elementwise applier starts.
switch_out_type ==
  /\ pc = "switch_out" /\ err = "None"
  /\ IF out_type \in RealTypes
     THEN /\ pc' = "apply"
          /\ i' = 0
          /\ loop_out' = out
          /\ UNCHANGED <<inputs, out, locals, err, calls, entry_out, written,
                         resized, fn_calls, divisors>>
     ELSE Abort("UnsupportedType")

\* The lambda checks the divisor after computing, so that the element is
\* stored before the call aborts.
apply_binary_elementwise_fn_late_check ==
  /\ op = "Tensor" /\ pc = "apply" /\ err = "None"
  /\ i < Numel(out.sizes)
  /\ LET va == a.data[linearize_access_indexes(i, out.sizes, a.sizes) + 1]
         vb == b.data[linearize_access_indexes(i, out.sizes, b.sizes) + 1]
     IN \E r \in fmod_fn(va, vb, a_type, b_type, common_type, out_type) :
          /\ out' = [out EXCEPT !.data[i + 1] = r]
          /\ written' = written \cup {i + 1}
          /\ fn_calls' = fn_calls + 1
          /\ IF ZeroDivisorCheckFails(common_type, vb)
             THEN /\ err' = "DomainViolation"
                  /\ UNCHANGED <<i, divisors>>
             ELSE /\ i' = i + 1
                  /\ divisors' = divisors \cup
                                   {b_casted_of(vb, b_type, common_type)}
                  /\ UNCHANGED err
          /\ UNCHANGED <<inputs, locals, pc, calls, entry_out, loop_out,
                         resized>>

\* The applier called with the operands in the order (b, a, out).
apply_binary_elementwise_fn_swapped ==
  /\ op = "Tensor" /\ pc = "apply" /\ err = "None"
  /\ i < Numel(out.sizes)
  /\ LET va == b.data[linearize_access_indexes(i, out.sizes, b.sizes) + 1]
         vb == a.data[linearize_access_indexes(i, out.sizes, a.sizes) + 1]
     IN IF ZeroDivisorCheckFails(common_type, vb)
        THEN /\ err' = "DomainViolation"
             /\ fn_calls' = fn_calls + 1
             /\ UNCHANGED <<inputs, out, locals, pc, i, calls, entry_out,
                            loop_out, written, resized, divisors>>
        ELSE \E r \in fmod_fn(va, vb, b_type, a_type, common_type, out_type) :
               /\ out' = [out EXCEPT !.data[i + 1] = r]
               /\ i' = i + 1
               /\ written' = written \cup {i + 1}
               /\ fn_calls' = fn_calls + 1
               /\ divisors' = divisors \cup
                                {b_casted_of(vb, a_type, common_type)}
               /\ UNCHANGED <<inputs, locals, pc, err, calls, entry_out,
                              loop_out, resized>>

\* One iteration of apply_binary_elementwise_fn<CTYPE_A, CTYPE_B, CTYPE_OUT>:
\* data_out[i] = fn(data_a[a_index], data_b[b_index]), where fn is the
\* lambda of fmod_Tensor_out (zero check, casts, std::fmod, cast).
apply_binary_elementwise_fn ==
  /\ op = "Tensor" /\ pc = "apply" /\ err = "None"
  /\ i < Numel(out.sizes)
  /\ LET va == a.data[linearize_access_indexes(i, out.sizes, a.sizes) + 1]
         vb == b.data[linearize_access_indexes(i, out.sizes, b.sizes) + 1]
     IN IF ZeroDivisorCheckFails(common_type, vb)
        THEN /\ err' = "DomainViolation"
             /\ fn_calls' = fn_calls + 1
             /\ UNCHANGED <<inputs, out, locals, pc, i, calls, entry_out,
                            loop_out, written, resized, divisors>>
        ELSE \E r \in fmod_fn(va, vb, a_type, b_type, common_type, out_type) :
               /\ out' = [out EXCEPT !.data[i + 1] = r]
               /\ i' = i + 1
               /\ written' = written \cup {i + 1}
               /\ fn_calls' = fn_calls + 1
               /\ divisors' = divisors \cup
                                {b_casted_of(vb, b_type, common_type)}
               /\ UNCHANGED <<inputs, locals, pc, err, calls, entry_out,
                              loop_out, resized>>

\* The result is added to the element of out instead of replacing it.
apply_unary_map_fn_accumulate ==
  /\ op = "Scalar" /\ pc = "apply" /\ err = "None"
  /\ i < Numel(out.sizes)
  /\ \E r \in fmod_fn(a.data[i + 1], val_b, a_type, b_type, common_type,
                      out_type) :
       /\ out' = [out EXCEPT !.data[i + 1] =
                                IF r = NaN \/ @ = NaN THEN NaN ELSE @ + r]
       /\ i' = i + 1
       /\ written' = written \cup {i + 1}
       /\ fn_calls' = fn_calls + 1
       /\ divisors' = divisors \cup {b_casted_of(val_b, b_type, common_type)}
       /\ UNCHANGED <<inputs, locals, pc, err, calls, entry_out, loop_out,
                      resized>>

\* One iteration of apply_unary_map_fn over a's data: data_out[i] =
\* fn(data_in[i]), where fn is the lambda of fmod_Scalar_out (casts,
\* std::fmod with the captured val_b, cast).
apply_unary_map_fn ==
  /\ op = "Scalar" /\ pc = "apply" /\ err = "None"
  /\ i < Numel(out.sizes)
  /\ \E r \in fmod_fn(a.data[i + 1], val_b, a_type, b_type, common_type,
                      out_type) :
       /\ out' = [out EXCEPT !.data[i + 1] = r]
       /\ i' = i + 1
       /\ written' = written \cup {i + 1}
       /\ fn_calls' = fn_calls + 1
       /\ divisors' = divisors \cup {b_casted_of(val_b, b_type, common_type)}
       /\ UNCHANGED <<inputs, locals, pc, err, calls, entry_out, loop_out,
                      resized>>

\* return out;
return_out ==
  /\ pc = "apply" /\ err = "None"
  /\ i = Numel(out.sizes)
  /\ Goto("done")

\* The caller invokes the same operation again with the same operands and
\* the same out tensor.
call_again ==
  /\ pc = "done" /\ err = "None"
  /\ calls < MaxCalls
  /\ calls' = calls + 1
  /\ pc' = "resize"
  /\ a_type' = Undefined /\ b_type' = Undefined
  /\ common_type' = Undefined /\ out_type' = Undefined
  /\ val_b' = 0
  /\ i' = 0
  /\ entry_out' = out
  /\ loop_out' = out
  /\ written' = {}
  /\ resized' = 0
  /\ fn_calls' = 0
  /\ divisors' = {}
  /\ UNCHANGED <<inputs, out, err>>

Next ==
  \/ fmod_Tensor_out_resize
  \/ fmod_Scalar_out_resize
  \/ fmod_Tensor_out_types
  \/ fmod_Scalar_out_types
  \/ check_canCast
  \/ switch_a_type
  \/ fmod_Tensor_out_switch_b
  \/ fmod_Scalar_out_switch_b
  \/ fmod_Scalar_out_extract
  \/ switch_common_type
  \/ fmod_Scalar_out_check_zero
  \/ switch_out_type
  \/ apply_binary_elementwise_fn
  \/ apply_unary_map_fn
  \/ return_out
  \/ call_again

Spec == Init /\ [][Next]_vars

\* ------------------------------------------------- vocabulary of the claims
Positions == 1..Numel(out.sizes)

\* The elements of a and of b that are combined into position p of out.
DividendAt(p) ==
  IF op = "Tensor"
  THEN a.data[linearize_access_indexes(p - 1, out.sizes, a.sizes) + 1]
  ELSE a.data[p]

DivisorAt(p) ==
  IF op = "Tensor"
  THEN b.data[linearize_access_indexes(p - 1, out.sizes, b.sizes) + 1]
  ELSE b.data[1]

\* Quotient rounded toward zero, and the remainder it leaves.
TruncDiv(x, y) ==
  IF (x < 0) = (y < 0) THEN Abs(x) \div Abs(y) ELSE -(Abs(x) \div Abs(y))

TruncRem(x, y) == x - y * TruncDiv(x, y)

\* Shapes padded on the left with extent 1 to a common rank.
PadLeft(sizes, n) ==
  [j \in 1..n |-> IF j <= n - Len(sizes) THEN 1 ELSE sizes[j - (n - Len(sizes))]]

Compatible(sa, sb) ==
  LET n == Max(Len(sa), Len(sb)) IN
  \A j \in 1..n :
     PadLeft(sa, n)[j] = PadLeft(sb, n)[j]
       \/ PadLeft(sa, n)[j] = 1 \/ PadLeft(sb, n)[j] = 1

BroadcastOf(sa, sb) ==
  LET n == Max(Len(sa), Len(sb)) IN
  [j \in 1..n |-> IF PadLeft(sa, n)[j] = 1 THEN PadLeft(sb, n)[j]
                  ELSE PadLeft(sa, n)[j]]

\* The logical coordinates of a tensor of the given sizes (0-based).
Coords(sizes) ==
  {c \in [1..Len(sizes) -> 0..(MaxExtent - 1)] :
     \A j \in 1..Len(sizes) : c[j] < sizes[j]}

\* Row-major index of coordinate c, by Horner's rule.
RECURSIVE RowMajor(_, _, _)
RowMajor(c, sizes, j) ==
  IF j = 0 THEN 0 ELSE RowMajor(c, sizes, j - 1) * sizes[j] + c[j]

\* Coordinate c of the output seen from an operand: the trailing dimensions
\* of c, with every dimension of extent 1 in the operand set to zero.
OperandCoord(c, sizes) ==
  [j \in 1..Len(sizes) |->
     IF sizes[j] = 1 THEN 0 ELSE c[Len(c) - Len(sizes) + j]]

ElementAt(t, c) == t.data[RowMajor(c, t.sizes, Len(t.sizes)) + 1]

Past(locations) == pc \in locations

\* ------------------------------------------------------------------ claims

\* C1 as stated: when a zero integral divisor aborts the call with a
\* DomainViolation, no element of out has been written, wherever the zero
\* sits in b.
C1_NothingWrittenAtDomainViolation ==
  err = "DomainViolation" => written = {}

\* C1 amended: with an integral common type, a call that has passed the
\* shape, cast and dispatch checks never stores an element whose divisor is
\* zero and never completes once a zero divisor is visited: it aborts with
\* DomainViolation at the first zero divisor in row-major order.  In
\* fmod_Scalar_out the abort precedes the loop and nothing has been written;
\* in fmod_Tensor_out exactly the positions before the first zero divisor
\* have been written.
C1_AbortAtFirstZeroDivisor ==
  /\ isIntegralType(common_type, TRUE) =>
       \A p \in written : DivisorAt(p) # 0
  /\ (isIntegralType(common_type, TRUE) /\ pc = "done") =>
       \A p \in Positions : DivisorAt(p) # 0
  /\ err = "DomainViolation" =>
       /\ isIntegralType(common_type, TRUE)
       /\ op = "Scalar" =>
            /\ pc = "check_zero"
            /\ val_b = 0
            /\ written = {} /\ fn_calls = 0
            /\ out.data = entry_out.data
       /\ op = "Tensor" =>
            /\ pc = "apply"
            /\ written = 1..i
            /\ DivisorAt(i + 1) = 0
            /\ \A p \in 1..i : DivisorAt(p) # 0

C1_Witness ==
  /\ err = "DomainViolation" /\ op = "Tensor"
  /\ i > 0 /\ i + 1 < Numel(out.sizes)
  /\ written = 1..i

\* C2: operands whose shapes are not broadcast-compatible make
\* fmod_Tensor_out fail with ShapeMismatch at its first statement: out has
\* the sizes and the elements it had before the call, and no type has been
\* resolved, no slot dispatched, no element computed.
C2_ShapeMismatchBeforeMutation ==
  /\ (op = "Tensor" /\ ~Compatible(a.sizes, b.sizes)) =>
       /\ pc = "resize"
       /\ err \in {"None", "ShapeMismatch"}
       /\ out = entry_out
       /\ a_type = Undefined /\ b_type = Undefined
       /\ common_type = Undefined /\ out_type = Undefined
       /\ fn_calls = 0 /\ written = {} /\ resized = 0
  /\ err = "ShapeMismatch" =>
       /\ op = "Tensor" /\ ~Compatible(a.sizes, b.sizes)
       /\ out = entry_out /\ calls = 1

C2_Witness ==
  /\ err = "ShapeMismatch"
  /\ a.sizes = <<3, 2>> /\ b.sizes = <<2, 3>>
  /\ out.sizes = <<1>>

\* C3: in both kernels the common type is resolved and canCast(common_type,
\* out_type) is checked before the type dispatch: when it is false the call
\* stops at the check with CastNotAllowed, no slot has been dispatched, the
\* per-element function has not been invoked and no element was written.
C3_CastCheckedBeforeDispatch ==
  /\ (common_type # Undefined /\ ~canCast(common_type, out_type)) =>
       /\ pc = "check_cast"
       /\ err \in {"None", "CastNotAllowed"}
       /\ fn_calls = 0 /\ written = {}
       /\ out.data = entry_out.data
  /\ err = "CastNotAllowed" =>
       /\ pc = "check_cast"
       /\ common_type # Undefined /\ out_type # Undefined
       /\ ~canCast(common_type, out_type)
  /\ Past({"switch_a", "switch_b", "extract", "switch_in", "check_zero",
           "switch_out", "apply", "done"}) =>
       canCast(common_type, out_type)

C3_Witness ==
  /\ err = "CastNotAllowed" /\ op = "Scalar"
  /\ isFloatingType(common_type) /\ isIntegralType(out_type, FALSE)

C6_BroadcastElements ==
  (op = "Tensor" /\ pc = "done") =>
    /\ Compatible(a.sizes, b.sizes)
    /\ out.sizes = BroadcastOf(a.sizes, b.sizes)
    /\ \A c \in Coords(out.sizes) :
         ElementAt(out, c) \in
           fmod_fn(ElementAt(a, OperandCoord(c, a.sizes)),
                   ElementAt(b, OperandCoord(c, b.sizes)),
                   a.type, b.type, promoteTypes(a.type, b.type), out.type)

C6_Witness ==
  /\ op = "Tensor" /\ pc = "done"
  /\ a.sizes = <<1, 3>> /\ b.sizes = <<2, 3>>
  /\ out.sizes = <<2, 3>>
  /\ entry_out.sizes = <<1>>
  /\ \A r \in 0..1 : \A k \in 0..2 :
        out.data[3 * r + k + 1] \in
          fmod_fn(a.data[k + 1], b.data[3 * r + k + 1], a.type, b.type,
                  common_type, out.type)

\* C7: a second call with the same operands and the same out tensor leaves
\* out with the sizes and the elements the first call left; and a call
\* changes the sizes of out at most once, exactly when they differ from the
\* target sizes.
C7_Idempotent ==
  /\ (calls > 1 /\ pc = "done") => out = entry_out
  /\ resized <= 1
  /\ pc # "resize" =>
       /\ (resized = 1) = (entry_out.sizes # out.sizes)
       /\ out.sizes = IF op = "Tensor" THEN BroadcastOf(a.sizes, b.sizes)
                      ELSE a.sizes
  /\ calls > 1 => resized = 0

C7_Witness ==
  /\ calls = 2 /\ pc = "done"
  /\ written = Positions /\ Numel(out.sizes) > 1
  /\ \E p \in Positions : out.data[p] # TensorVal(7, out.type)

\* C8: the dispatch reaches the elementwise loop only with one tag per slot
\* that the slot accepts (real types and Bool for the operand slots, real
\* types only for the compute and output slots); a slot reached with any
\* other tag fails with UnsupportedType before an element is written, so a
\* call whose common type or output type is Bool ends in UnsupportedType
\* although canCast(common_type, out_type) held.
C8_DispatchRejectsUnsupported ==
  /\ Past({"apply", "done"}) =>
       /\ a_type \in RealTypes \cup {"Bool"}
       /\ b_type \in RealTypes \cup {"Bool"}
       /\ common_type \in RealTypes
       /\ out_type \in RealTypes
  /\ Past({"check_zero", "switch_out"}) => common_type \in RealTypes
  /\ err = "UnsupportedType" =>
       /\ written = {} /\ fn_calls = 0
       /\ out.data = entry_out.data
       /\ \/ pc = "switch_a" /\ a_type \notin RealTypes \cup {"Bool"}
          \/ pc = "switch_b" /\ b_type \notin RealTypes \cup {"Bool"}
          \/ pc = "switch_in" /\ common_type \notin RealTypes
          \/ pc = "switch_out" /\ out_type \notin RealTypes
  /\ (/\ err # "None"
      /\ common_type # Undefined
      /\ canCast(common_type, out_type)
      /\ common_type = "Bool" \/ out_type = "Bool") =>
       (err = "UnsupportedType" /\ pc = "switch_in")
  /\ (/\ err # "None"
      /\ \/ pc = "switch_a" /\ a_type \notin RealTypes \cup {"Bool"}
         \/ pc = "switch_b" /\ b_type \notin RealTypes \cup {"Bool"}
         \/ pc = "switch_in" /\ common_type \notin RealTypes
         \/ pc = "switch_out" /\ out_type \notin RealTypes) =>
       err = "UnsupportedType"

C8_Witness ==
  /\ err = "UnsupportedType" /\ pc = "switch_in"
  /\ a_type = "Bool" /\ b_type = "Bool" /\ common_type = "Bool"
  /\ canCast(common_type, out_type)

\* C9: when fmod_Tensor_out detects a DomainViolation at output position k,
\* the loop stops there: k and every later position hold what they held when
\* the loop started, the positions before k hold the remainder of their
\* operands, the lambda has run k times and no zero divisor was handed to
\* std::fmod.
C9_StopsAtViolation ==
  (op = "Tensor" /\ err = "DomainViolation") =>
    LET k == i + 1 IN
    /\ DivisorAt(k) = 0
    /\ fn_calls = k
    /\ \A p \in k..Capacity : out.data[p] = loop_out.data[p]
    /\ \A p \in 1..(k - 1) :
         /\ DivisorAt(p) # 0
         /\ out.data[p] =
              static_cast(TruncRem(DividendAt(p), DivisorAt(p)),
                          common_type, out_type)
    /\ 0 \notin divisors
    /\ out.sizes = loop_out.sizes

C9_Witness ==
  /\ op = "Tensor" /\ err = "DomainViolation"
  /\ i = 2 /\ Numel(out.sizes) > 3
  /\ \A p \in 1..2 : out.data[p] # loop_out.data[p]

====
